---- MODULE Spec2Model ----
(***************************************************************************)
(* Archipelago graph analysis (src/traffic.py).                            *)
(*                                                                         *)
(* A text is a sequence of one-character strings.  City objects live in a  *)
(* heap (a sequence of records); a City is referred to by its index in the *)
(* heap, which stands for Python's object identity.                        *)
(***************************************************************************)
EXTENDS Integers, Sequences, FiniteSets

VARIABLES pop_data, road_data, cities, city_list, pc, result

vars == <<pop_data, road_data, cities, city_list, pc, result>>

-----------------------------------------------------------------------------
(* Bounds of the model.                                                    *)

\* Lines of the population / road text in the builder specification.
MaxBuildPopLines == 3
MaxBuildRoadLines == 2
\* Lines of the population / road text in the traversal specification.
MaxPopLines == 3
MaxRoadLines == 3

-----------------------------------------------------------------------------
(* Strings: the str methods build_graph uses.                              *)

NL == "\n"
SP == " "
Whitespace == {SP, NL}
Digits == <<"0", "1", "2", "3", "4", "5", "6", "7", "8", "9">>
Separator == <<" ", ":", " ">>

\* str.strip(): leading and trailing whitespace removed.
RECURSIVE lstrip(_)
lstrip(s) ==
    IF s # <<>> /\ Head(s) \in Whitespace THEN lstrip(Tail(s)) ELSE s

RECURSIVE rstrip(_)
rstrip(s) ==
    IF s # <<>> /\ s[Len(s)] \in Whitespace
    THEN rstrip(SubSeq(s, 1, Len(s) - 1))
    ELSE s

strip(s) == rstrip(lstrip(s))

\* Whether sep occurs in s at position i.
OccursAt(s, sep, i) ==
    /\ i + Len(sep) - 1 <= Len(s)
    /\ \A k \in 1..Len(sep) : s[i + k - 1] = sep[k]

\* str.find(sep, i): the first position from i on where sep occurs, 0
\* when there is none.
RECURSIVE find(_, _, _)
find(s, sep, i) ==
    IF i + Len(sep) - 1 > Len(s) THEN 0
    ELSE IF OccursAt(s, sep, i) THEN i
    ELSE find(s, sep, i + 1)

\* str.split(sep): the pieces between the non-overlapping occurrences of
\* sep, found left to right; always at least one piece.
RECURSIVE split(_, _)
split(s, sep) ==
    LET i == find(s, sep, 1) IN
    IF i = 0
    THEN <<s>>
    ELSE <<SubSeq(s, 1, i - 1)>> \o split(SubSeq(s, i + Len(sep), Len(s)), sep)

DigitValue(c) == CHOOSE d \in 0..9 : Digits[d + 1] = c

IsDigit(c) == \E d \in 1..10 : Digits[d] = c

\* int(s) raises ValueError unless s is an optional sign followed by at
\* least one decimal digit (the texts of the model hold no underscore).
IntBody(s) == IF s # <<>> /\ Head(s) \in {"+", "-"} THEN Tail(s) ELSE s

IsInt(s) ==
    LET body == IntBody(s) IN
    body # <<>> /\ \A k \in 1..Len(body) : IsDigit(body[k])

RECURSIVE DecimalValue(_)
DecimalValue(ds) ==
    IF ds = <<>> THEN 0
    ELSE 10 * DecimalValue(SubSeq(ds, 1, Len(ds) - 1)) + DigitValue(ds[Len(ds)])

int(s) ==
    IF s # <<>> /\ Head(s) = "-"
    THEN 0 - DecimalValue(IntBody(s))
    ELSE DecimalValue(IntBody(s))

-----------------------------------------------------------------------------
(* Task 1: the City class.                                                 *)

\* City.__init__
City(name, population) ==
    [name |-> name, population |-> population,
     connections |-> <<>>, visited |-> FALSE]

InSeq(x, seq) == \E k \in 1..Len(seq) : seq[k] = x

\* Mutant of add_connection: the membership test left out.
add_connection_unchecked(heap, self, city_obj) ==
    [heap EXCEPT ![self].connections = Append(@, city_obj)]

\* City.add_connection: self and city_obj are heap indices.
add_connection(heap, self, city_obj) ==
    IF ~InSeq(city_obj, heap[self].connections)
    THEN [heap EXCEPT ![self].connections = Append(@, city_obj)]
    ELSE heap

\* Mutant of reset_visited: the marker left as it is.
reset_visited_skipped(heap, self) == heap

\* City.reset_visited
reset_visited(heap, self) == [heap EXCEPT ![self].visited = FALSE]

-----------------------------------------------------------------------------
(* Task 2: build_graph.                                                    *)

\* city_map is an insertion-ordered dict: a sequence of [key, value].
InMap(city_map, name) == \E k \in 1..Len(city_map) : city_map[k].key = name

Lookup(city_map, name) ==
    city_map[CHOOSE k \in 1..Len(city_map) : city_map[k].key = name].value

\* Mutant of DictSet: a key already present keeps its first value.
DictSetKeepFirst(city_map, name, obj) ==
    IF InMap(city_map, name)
    THEN city_map
    ELSE Append(city_map, [key |-> name, value |-> obj])

\* city_map[name] = obj: an existing key keeps its position.
DictSet(city_map, name, obj) ==
    IF InMap(city_map, name)
    THEN [k \in 1..Len(city_map) |->
             IF city_map[k].key = name
             THEN [key |-> name, value |-> obj]
             ELSE city_map[k]]
    ELSE Append(city_map, [key |-> name, value |-> obj])

\* list(city_map.values())
Values(city_map) == [k \in 1..Len(city_map) |-> city_map[k].value]

\* The body of the first loop for one line; st = [heap, city_map].  A line
\* that does not unpack into two parts, or whose number int() refuses,
\* raises ValueError and is skipped.
PopulationLine(st, raw) ==
    LET line == strip(raw)
        parts == split(line, Separator)
        name == strip(parts[1])
        pop_str == strip(parts[2])
    IN  IF line = <<>> THEN st
        ELSE IF Len(parts) # 2 THEN st
        ELSE IF ~IsInt(pop_str) THEN st
        ELSE [heap |-> Append(st.heap, City(name, int(pop_str))),
              city_map |-> DictSet(st.city_map, name, Len(st.heap) + 1)]

\* Mutant of Connect: the connection back left out.
ConnectOneWay(heap, city1, city2) == add_connection(heap, city1, city2)

\* city1.add_connection(city2); city2.add_connection(city1)
Connect(heap, city1, city2) ==
    add_connection(add_connection(heap, city1, city2), city2, city1)

\* The body of the second loop for one line.
RoadLine(st, raw) ==
    LET line == strip(raw)
        parts == split(line, Separator)
        city1_name == strip(parts[1])
        city2_name == strip(parts[2])
    IN  IF line = <<>> THEN st
        ELSE IF Len(parts) # 2 THEN st
        ELSE IF InMap(st.city_map, city1_name) /\ InMap(st.city_map, city2_name)
             THEN [st EXCEPT !.heap = Connect(@, Lookup(st.city_map, city1_name),
                                                 Lookup(st.city_map, city2_name))]
             ELSE st

RECURSIVE PopulationLoop(_, _)
PopulationLoop(st, lines) ==
    IF lines = <<>> THEN st
    ELSE PopulationLoop(PopulationLine(st, Head(lines)), Tail(lines))

RECURSIVE RoadLoop(_, _)
RoadLoop(st, lines) ==
    IF lines = <<>> THEN st
    ELSE RoadLoop(RoadLine(st, Head(lines)), Tail(lines))

\* build_graph: the heap of City objects and the returned list.
build_graph(pop, road) ==
    LET st0 == [heap |-> <<>>, city_map |-> <<>>]
        st1 == PopulationLoop(st0, split(pop, <<NL>>))
        st2 == RoadLoop(st1, split(road, <<NL>>))
    IN  [heap |-> st2.heap, list |-> Values(st2.city_map)]

-----------------------------------------------------------------------------
(* Tasks 3 and 4: islands, by an iterative depth-first search.             *)

\* Mutant of DFSNeighbors: a newly marked neighbor is not pushed.
RECURSIVE DFSNeighborsNotPushed(_, _)
DFSNeighborsNotPushed(st, connections) ==
    IF connections = <<>> THEN st
    ELSE LET neighbor == Head(connections) IN
         IF ~st.heap[neighbor].visited
         THEN DFSNeighborsNotPushed(
                [heap |-> [st.heap EXCEPT ![neighbor].visited = TRUE],
                 stack |-> st.stack,
                 population |-> st.population + st.heap[neighbor].population],
                Tail(connections))
         ELSE DFSNeighborsNotPushed(st, Tail(connections))

\* The for loop over city.connections inside _depth_first_search;
\* st = [heap, stack, population].
RECURSIVE DFSNeighbors(_, _)
DFSNeighbors(st, connections) ==
    IF connections = <<>> THEN st
    ELSE LET neighbor == Head(connections) IN
         IF ~st.heap[neighbor].visited
         THEN DFSNeighbors(
                [heap |-> [st.heap EXCEPT ![neighbor].visited = TRUE],
                 stack |-> Append(st.stack, neighbor),
                 population |-> st.population + st.heap[neighbor].population],
                Tail(connections))
         ELSE DFSNeighbors(st, Tail(connections))

\* The while loop: pop the last city of the stack, visit its neighbors.
RECURSIVE DFSWhile(_)
DFSWhile(st) ==
    IF st.stack = <<>> THEN st
    ELSE LET city == st.stack[Len(st.stack)]
             popped == [st EXCEPT !.stack = SubSeq(@, 1, Len(@) - 1)]
         IN  DFSWhile(DFSNeighbors(popped, st.heap[city].connections))

\* Mutant of depth_first_search: the start city's population left out.
depth_first_search_less_start(heap, start_city) ==
    IF heap[start_city].visited
    THEN [heap |-> heap, population |-> 0]
    ELSE LET done == DFSWhile([heap |-> [heap EXCEPT ![start_city].visited = TRUE],
                               stack |-> <<start_city>>,
                               population |-> 0])
         IN  [heap |-> done.heap, population |-> done.population]

\* _depth_first_search: the heap with the component marked, and its
\* population.
depth_first_search(heap, start_city) ==
    IF heap[start_city].visited
    THEN [heap |-> heap, population |-> 0]
    ELSE LET done == DFSWhile([heap |-> [heap EXCEPT ![start_city].visited = TRUE],
                               stack |-> <<start_city>>,
                               population |-> heap[start_city].population])
         IN  [heap |-> done.heap, population |-> done.population]

\* for city in city_objects: city.reset_visited()
RECURSIVE ResetAll(_, _)
ResetAll(heap, city_objects) ==
    IF city_objects = <<>> THEN heap
    ELSE ResetAll(reset_visited(heap, Head(city_objects)), Tail(city_objects))

\* The counting loop of number_of_islands; st = [heap, value].
RECURSIVE CountLoop(_, _)
CountLoop(st, city_objects) ==
    IF city_objects = <<>> THEN st
    ELSE IF ~st.heap[Head(city_objects)].visited
    THEN CountLoop([heap |-> depth_first_search(st.heap, Head(city_objects)).heap,
                    value |-> st.value + 1],
                   Tail(city_objects))
    ELSE CountLoop(st, Tail(city_objects))

\* Mutant of number_of_islands: the markers cleared again on return.
number_of_islands_cleared(heap, city_objects) ==
    LET done == CountLoop([heap |-> ResetAll(heap, city_objects), value |-> 0],
                          city_objects)
    IN  [heap |-> ResetAll(done.heap, city_objects), value |-> done.value]

number_of_islands(heap, city_objects) ==
    CountLoop([heap |-> ResetAll(heap, city_objects), value |-> 0], city_objects)

\* The collecting loop of island_populations; st = [heap, value].
RECURSIVE PopulationsLoop(_, _)
PopulationsLoop(st, city_objects) ==
    IF city_objects = <<>> THEN st
    ELSE IF ~st.heap[Head(city_objects)].visited
    THEN LET dfs == depth_first_search(st.heap, Head(city_objects)) IN
         PopulationsLoop([heap |-> dfs.heap,
                          value |-> Append(st.value, dfs.population)],
                         Tail(city_objects))
    ELSE PopulationsLoop(st, Tail(city_objects))

island_populations(heap, city_objects) ==
    PopulationsLoop([heap |-> ResetAll(heap, city_objects), value |-> <<>>],
                    city_objects)

-----------------------------------------------------------------------------
(* Task 5: min_highways, by breadth-first search.                          *)

\* Mutant of BFSNeighbors: a neighbor queued at its parent's distance.
RECURSIVE BFSNeighborsSameDistance(_, _, _, _)
BFSNeighborsSameDistance(st, connections, distance, end_city) ==
    IF connections = <<>> THEN st
    ELSE LET neighbor == Head(connections) IN
         IF neighbor = end_city
         THEN [st EXCEPT !.found = TRUE, !.value = distance + 1]
         ELSE IF neighbor \notin st.visited
         THEN BFSNeighborsSameDistance(
                [st EXCEPT !.visited = @ \cup {neighbor},
                           !.queue = Append(@, <<neighbor, distance>>)],
                Tail(connections), distance, end_city)
         ELSE BFSNeighborsSameDistance(st, Tail(connections), distance, end_city)

\* The for loop over current_city.connections; st = [found, value, queue,
\* visited], queue entries are <<city, distance>>.
RECURSIVE BFSNeighbors(_, _, _, _)
BFSNeighbors(st, connections, distance, end_city) ==
    IF connections = <<>> THEN st
    ELSE LET neighbor == Head(connections) IN
         IF neighbor = end_city
         THEN [st EXCEPT !.found = TRUE, !.value = distance + 1]
         ELSE IF neighbor \notin st.visited
         THEN BFSNeighbors([st EXCEPT !.visited = @ \cup {neighbor},
                                      !.queue = Append(@, <<neighbor, distance + 1>>)],
                           Tail(connections), distance, end_city)
         ELSE BFSNeighbors(st, Tail(connections), distance, end_city)

\* The while loop: popleft, then the neighbors.
RECURSIVE BFSWhile(_, _, _)
BFSWhile(heap, st, end_city) ==
    IF st.queue = <<>> THEN -1
    ELSE LET current == Head(st.queue)
             after == BFSNeighbors([st EXCEPT !.queue = Tail(@)],
                                   heap[current[1]].connections,
                                   current[2], end_city)
         IN  IF after.found THEN after.value
             ELSE BFSWhile(heap, after, end_city)

min_highways(heap, start_city, end_city) ==
    IF start_city = end_city THEN 0
    ELSE BFSWhile(heap,
                  [found |-> FALSE, value |-> 0,
                   queue |-> <<<<start_city, 0>>>>, visited |-> {start_city}],
                  end_city)

-----------------------------------------------------------------------------
(* Inputs.                                                                 *)

RECURSIVE SeqsUpTo(_, _)
SeqsUpTo(S, n) ==
    IF n = 0 THEN {<<>>}
    ELSE LET shorter == SeqsUpTo(S, n - 1) IN
         shorter \cup {Append(q, x) : q \in shorter, x \in S}

\* '\n'.join(lines)
RECURSIVE JoinLines(_)
JoinLines(lines) ==
    IF lines = <<>> THEN <<>>
    ELSE IF Len(lines) = 1 THEN lines[1]
    ELSE lines[1] \o <<NL>> \o JoinLines(Tail(lines))

Texts(lines, n) == {JoinLines(q) : q \in SeqsUpTo(lines, n)}

\* Population lines of the builder specification: declarations, a
\* re-declaration with padded fields, a number int() refuses.
BuildPopLines ==
    { <<"A", " ", ":", " ", "1">>,
      <<"B", " ", ":", " ", "2">>,
      <<" ", "A", " ", " ", ":", " ", " ", "8", " ">>,
      <<"B", " ", ":", " ", "x">> }

\* Road lines of the builder specification: both orders (one with padded
\* fields), a self pair, an unregistered name, three parts.
BuildRoadLines ==
    { <<"A", " ", ":", " ", "B">>,
      <<" ", "B", " ", " ", ":", " ", " ", "A", " ">>,
      <<"A", " ", ":", " ", "A">>,
      <<"Z", " ", ":", " ", "A">>,
      <<"A", " ", ":", " ", "B", " ", ":", " ", "A">> }

\* Lines of the traversal specification: three cities whose populations
\* tell every subset apart, the three roads between them and a self pair.
PopLines ==
    { <<"A", " ", ":", " ", "1">>,
      <<"B", " ", ":", " ", "2">>,
      <<"C", " ", ":", " ", "4">> }

RoadLines ==
    { <<"A", " ", ":", " ", "B">>,
      <<"B", " ", ":", " ", "C">>,
      <<"C", " ", ":", " ", "A">>,
      <<"A", " ", ":", " ", "A">> }

-----------------------------------------------------------------------------
(* Actions.                                                                *)

NoResult == [op |-> "none"]

InitBuild ==
    /\ pop_data \in Texts(BuildPopLines, MaxBuildPopLines)
    /\ road_data \in Texts(BuildRoadLines, MaxBuildRoadLines)
    /\ cities = <<>>
    /\ city_list = <<>>
    /\ pc = "start"
    /\ result = NoResult

\* city_list = build_graph(pop_content, road_content)
BuildGraph ==
    /\ pc = "start"
    /\ LET g == build_graph(pop_data, road_data) IN
        /\ cities' = g.heap
        /\ city_list' = g.list
    /\ pc' = "idle"
    /\ result' = [op |-> "build_graph"]
    /\ UNCHANGED <<pop_data, road_data>>

\* num_islands = number_of_islands(city_list)
NumberOfIslands ==
    /\ pc = "idle"
    /\ LET r == number_of_islands(cities, city_list) IN
        /\ cities' = r.heap
        /\ result' = [op |-> "number_of_islands", value |-> r.value]
    /\ UNCHANGED <<pop_data, road_data, city_list, pc>>

\* islands_pop = island_populations(city_list)
IslandPopulations ==
    /\ pc = "idle"
    /\ LET r == island_populations(cities, city_list) IN
        /\ cities' = r.heap
        /\ result' = [op |-> "island_populations", value |-> r.value]
    /\ UNCHANGED <<pop_data, road_data, city_list, pc>>

\* distance = min_highways(city_map[start], city_map[end])
MinHighways ==
    /\ pc = "idle"
    /\ \E s, e \in 1..Len(city_list) :
        result' = [op |-> "min_highways",
                   start |-> city_list[s], end |-> city_list[e],
                   value |-> min_highways(cities, city_list[s], city_list[e])]
    /\ UNCHANGED <<pop_data, road_data, cities, city_list, pc>>

Init ==
    /\ pop_data \in Texts(PopLines, MaxPopLines)
    /\ road_data \in Texts(RoadLines, MaxRoadLines)
    /\ cities = <<>>
    /\ city_list = <<>>
    /\ pc = "start"
    /\ result = NoResult

Next ==
    \/ BuildGraph
    \/ NumberOfIslands
    \/ IslandPopulations
    \/ MinHighways

Spec == Init /\ [][Next]_vars

NextBuild == BuildGraph

SpecBuild == InitBuild /\ [][NextBuild]_vars

-----------------------------------------------------------------------------
(* The graph, as sets: what the claims are stated against.                 *)

Nodes == {city_list[k] : k \in 1..Len(city_list)}

Neighbors(c) == {cities[c].connections[k] : k \in 1..Len(cities[c].connections)}

Idle(op) == pc = "idle" /\ result.op = op

\* The cities reachable from those of S along connections.
RECURSIVE ReachFrom(_)
ReachFrom(S) ==
    LET T == S \cup UNION {Neighbors(c) : c \in S} IN
    IF T = S THEN S ELSE ReachFrom(T)

Reachable(a, b) == b \in ReachFrom({a})

\* The connected component of a: the cities mutually reachable with it.
Island(a) == {b \in Nodes : Reachable(a, b) /\ Reachable(b, a)}

Islands == {Island(a) : a \in Nodes}

RECURSIVE PopulationOf(_)
PopulationOf(S) ==
    IF S = {} THEN 0
    ELSE LET c == CHOOSE x \in S : TRUE IN
         cities[c].population + PopulationOf(S \ {c})

RECURSIVE SeqSum(_)
SeqSum(q) == IF q = <<>> THEN 0 ELSE Head(q) + SeqSum(Tail(q))

\* Positions of city_list that start a component not met before.
Leaders ==
    {k \in 1..Len(city_list) :
        \A j \in 1..(k - 1) : city_list[j] \notin Island(city_list[k])}

NthLeader(i) ==
    CHOOSE k \in Leaders : Cardinality({j \in Leaders : j < k}) = i - 1

ExpectedPopulations ==
    [i \in 1..Cardinality(Leaders) |-> PopulationOf(Island(city_list[NthLeader(i)]))]

\* The cities at most k edges away from a.
RECURSIVE Within(_, _)
Within(a, k) ==
    IF k = 0 THEN {a}
    ELSE LET W == Within(a, k - 1) IN W \cup UNION {Neighbors(c) : c \in W}

ExpectedDistance(a, b) ==
    LET lengths == {k \in 0..Cardinality(Nodes) : b \in Within(a, k)} IN
    IF a = b THEN 0
    ELSE IF lengths = {} THEN -1
    ELSE CHOOSE k \in lengths : \A j \in lengths : k <= j

\* The heap as build_graph leaves it: no city marked.
Fresh(heap) == [c \in 1..Len(heap) |-> [heap[c] EXCEPT !.visited = FALSE]]

-----------------------------------------------------------------------------
(* The input texts, as records: what the builder claims are stated         *)
(* against.                                                                *)

Fields(raw) == split(strip(raw), Separator)

TwoFields(raw) == strip(raw) # <<>> /\ Len(Fields(raw)) = 2

ValidDeclaration(raw) == TwoFields(raw) /\ IsInt(strip(Fields(raw)[2]))

\* The valid declarations of the population text, in order.
RECURSIVE DeclarationsOf(_)
DeclarationsOf(lines) ==
    IF lines = <<>> THEN <<>>
    ELSE IF ValidDeclaration(Head(lines))
    THEN <<[name |-> strip(Fields(Head(lines))[1]),
            population |-> int(strip(Fields(Head(lines))[2]))]>>
         \o DeclarationsOf(Tail(lines))
    ELSE DeclarationsOf(Tail(lines))

Declarations == DeclarationsOf(split(pop_data, <<NL>>))

NamesOf(D) == {D[k].name : k \in 1..Len(D)}

Registered == NamesOf(Declarations)

\* The first and the last declaration of a name among those of D.
FirstAt(D, name) ==
    CHOOSE k \in 1..Len(D) :
        D[k].name = name /\ \A j \in 1..(k - 1) : D[j].name # name

LastAt(D, name) ==
    CHOOSE k \in 1..Len(D) :
        D[k].name = name /\ \A j \in (k + 1)..Len(D) : D[j].name # name

RoadTextLines == split(road_data, <<NL>>)

\* The two names of a well-formed road line.
RoadOf(raw) ==
    LET fields == Fields(raw) IN <<strip(fields[1]), strip(fields[2])>>

\* The well-formed road lines, as pairs of names.
Roads ==
    LET lines == RoadTextLines IN
    {RoadOf(lines[k]) : k \in {j \in 1..Len(lines) : TwoFields(lines[j])}}

NamesOutside(raw, names) ==
    /\ TwoFields(raw)
    /\ LET road == RoadOf(raw) IN road[1] \notin names \/ road[2] \notin names

\* The road text without its lines that name an unregistered city.
RoadsOfRegistered ==
    LET names == Registered IN
    JoinLines(SelectSeq(RoadTextLines, LAMBDA raw : ~NamesOutside(raw, names)))

-----------------------------------------------------------------------------
(* Claims.                                                                 *)

\* C1: number_of_islands returns the number of connected components of the
\* built graph, an isolated city counting as one component.
C1_IslandCount ==
    Idle("number_of_islands") => result.value = Cardinality(Islands)

\* Three cities on two islands, one of them an isolated city.
C1_Witness ==
    /\ Idle("number_of_islands")
    /\ Len(city_list) = 3
    /\ result.value = 2
    /\ \E c \in Nodes : Neighbors(c) = {}

\* C2: island_populations returns one entry per connected component, in
\* the order the components are first met in the city list, each the sum
\* of the populations of the cities of that component; the entries total
\* the population of all cities.
C2_IslandPopulations ==
    Idle("island_populations") =>
        /\ result.value = ExpectedPopulations
        /\ Len(result.value) = Cardinality(Islands)
        /\ SeqSum(result.value) = PopulationOf(Nodes)

\* Two islands, the first met holding two cities that are not adjacent in
\* the city list.
C2_Witness ==
    /\ Idle("island_populations")
    /\ Len(city_list) = 3
    /\ Len(result.value) = 2
    /\ city_list[3] \in Neighbors(city_list[1])

\* C3: min_highways returns 0 for a city and itself, else the least number
\* of edges on a path from start to end, and -1 when there is none.
C3_MinHighways ==
    Idle("min_highways") =>
        result.value = ExpectedDistance(result.start, result.end)

\* A shortest path of two highways.
C3_Witness ==
    /\ Idle("min_highways")
    /\ result.value = 2
    /\ result.end \notin Neighbors(result.start)

C5_CountEqualsNodesIffNoEdges ==
    Idle("number_of_islands") =>
        /\ result.value <= Len(city_list)
        /\ result.value = Len(city_list)
               <=> \A c \in Nodes : cities[c].connections = <<>>

\* C6: no city of the built graph lists itself in its connections.
C6_NoSelfLoop ==
    pc = "idle" => \A c \in Nodes : c \notin Neighbors(c)

\* C7: min_highways(a, b) = min_highways(b, a).
C7_Symmetry ==
    Idle("min_highways") =>
        result.value = min_highways(cities, result.end, result.start)

\* Two distinct connected cities with different connection lists.
C7_Witness ==
    /\ Idle("min_highways")
    /\ result.start # result.end
    /\ result.value > 0
    /\ Len(cities[result.start].connections) > Len(cities[result.end].connections)

\* C8: whatever traversal calls came before, a traversal returns what it
\* returns on the freshly built graph.
C8_SameAsOnFreshGraph ==
    /\ Idle("number_of_islands") =>
           result.value = number_of_islands(Fresh(cities), city_list).value
    /\ Idle("island_populations") =>
           result.value = island_populations(Fresh(cities), city_list).value
    /\ Idle("min_highways") =>
           result.value = min_highways(Fresh(cities), result.start, result.end)

\* min_highways has returned a path of two highways on a graph that an
\* earlier island traversal left marked.
C8_Witness ==
    /\ Idle("min_highways")
    /\ result.value = 2
    /\ \A c \in Nodes : cities[c].visited

\* C9: B is in A's connections exactly when a well-formed road line names
\* A and B, in either order, and both are registered; then B is there
\* once and A is in B's; every neighbor is a city of the returned list;
\* the road lines naming an unregistered city change nothing.
C9_EdgesFromRoads ==
    pc = "idle" =>
        /\ LET roads == Roads IN
           \A a, b \in Nodes :
              InSeq(b, cities[a].connections)
                  <=> \/ <<cities[a].name, cities[b].name>> \in roads
                      \/ <<cities[b].name, cities[a].name>> \in roads
        /\ \A a \in Nodes :
              /\ Neighbors(a) \subseteq Nodes
              /\ Cardinality(Neighbors(a)) = Len(cities[a].connections)
              /\ \A b \in Neighbors(a) : a \in Neighbors(b)
        /\ {cities[c].name : c \in Nodes} = Registered
        /\ build_graph(pop_data, RoadsOfRegistered).heap = cities

\* A road built next to a road line that names an unregistered city.
C9_Witness ==
    /\ pc = "idle"
    /\ \E a, b \in Nodes : a # b /\ b \in Neighbors(a)
    /\ LET lines == RoadTextLines
           names == Registered
       IN  \E k \in 1..Len(lines) : NamesOutside(lines[k], names)

\* C10: one city per declared name, in the order of the first declaration
\* of each name, with the population of its last valid declaration, and
\* the object created by that declaration.
C10_Redeclaration ==
    pc = "idle" =>
        LET D == Declarations IN
        /\ {cities[c].name : c \in Nodes} = NamesOf(D)
        /\ Len(city_list) = Cardinality(NamesOf(D))
        /\ \A k \in 1..Len(city_list) :
              /\ cities[city_list[k]].population
                     = D[LastAt(D, cities[city_list[k]].name)].population
              /\ city_list[k] = LastAt(D, cities[city_list[k]].name)
              /\ \A j \in 1..(k - 1) :
                     FirstAt(D, cities[city_list[j]].name)
                         < FirstAt(D, cities[city_list[k]].name)

\* A name declared first and again, with another population, after a
\* second name.
C10_Witness ==
    /\ pc = "idle"
    /\ Len(city_list) = 2
    /\ LET D == Declarations IN
       /\ Len(D) = 3
       /\ D[1].name = D[3].name
       /\ D[1].population # D[3].population

====
